---------------------------- MODULE Spec2Model ----------------------------
(***************************************************************************)
(* strimlitbook: a notebook (cells with captured outputs) is turned into a *)
(* sequence of calls against the streamlit renderer.                       *)
(*                                                                         *)
(* Python values are modelled as follows.                                  *)
(*   str         a sequence of one-character strings                       *)
(*   list        a sequence                                                *)
(*   dict        a function whose DOMAIN is the set of keys present; a     *)
(*               lookup d[k] with k \notin DOMAIN d raises KeyError        *)
(*   None        PyNone                                                    *)
(* A parsing function returns None, a dict of at most one item, or raises. *)
(***************************************************************************)
EXTENDS Integers, Sequences, FiniteSets, TLC

VARIABLES
    cell_dict,   \* StreamlitBook._cell_dict: the raw cell records, in order
    metadata,    \* StreamlitBook._metadata
    fault,       \* the renderer call of the last operation that failed, if any
    calls,       \* the calls made against the renderer by the last operation
    raised,      \* the exception the last operation let out ("None": none)
    returned,    \* what the last operation returned
    op           \* the last operation: [name |-> ..., arg |-> ...]

vars == <<cell_dict, metadata, fault, calls, raised, returned, op>>

---------------------------------------------------------------------------
(* Bounds of the model                                                     *)

MaxOutputs == 2     \* raw output records per code cell
MaxCells == 3       \* cells per book
MaxPieces == 3      \* pieces a markdown source is put together from
MaxAttachments == 2 \* attachments of a markdown cell
MaxFaultAt == 2     \* the renderer calls of an operation that may fail

---------------------------------------------------------------------------
(* Python values                                                           *)

PyNone == [type |-> "None"]
EmptyDict == [type |-> "dict", items |-> <<>>]
Dict(k, v) == [type |-> "dict", items |-> <<[key |-> k, value |-> v]>>]
Raise(e) == [type |-> "raise", exc |-> e]

\* bool(x) of a parsing function's return value: None and {} are falsy
Truthy(x) == x.type = "dict" /\ x.items # <<>>

RECURSIVE Join(_)
\* ''.join(fragments)
Join(fragments) ==
    IF fragments = <<>> THEN <<>>
    ELSE Head(fragments) \o Join(Tail(fragments))

Whitespace == {" ", "\n"}

RECURSIVE LStrip(_)
LStrip(s) ==
    IF s # <<>> /\ Head(s) \in Whitespace THEN LStrip(Tail(s)) ELSE s

RECURSIVE RStrip(_)
RStrip(s) ==
    IF s # <<>> /\ s[Len(s)] \in Whitespace
    THEN RStrip(SubSeq(s, 1, Len(s) - 1)) ELSE s

\* str.strip()
Strip(s) == RStrip(LStrip(s))

---------------------------------------------------------------------------
(* parse/outputs.py: the parsing functions of one raw output record        *)

plotly_key == "application/vnd.plotly.v1+json"
MediaTypes == {"display_data", "execute_result"}

\* (mutant) only the first fragment of the text is kept
stream_first_fragment(output) ==
    IF output.output_type = "stream"
    THEN IF "text" \notin DOMAIN output THEN Raise("KeyError")
         ELSE Dict("stdout", IF output.text = <<>> THEN <<>>
                             ELSE Head(output.text))
    ELSE PyNone

_parse_stream_output(output) ==
    IF output.output_type = "stream"
    THEN IF "text" \notin DOMAIN output THEN Raise("KeyError")
         ELSE Dict("stdout", Join(output.text))
    ELSE PyNone

\* (mutant) the figure of a Plotly record is classified as an altair_fig
plotly_parsed_as_altair(output) ==
    IF output.output_type \in MediaTypes
    THEN IF "data" \notin DOMAIN output THEN Raise("KeyError")
         ELSE IF plotly_key \in DOMAIN output.data
         THEN LET fig == output.data[plotly_key] IN
              IF "data" \notin DOMAIN fig \/ "layout" \notin DOMAIN fig
              THEN Raise("KeyError")
              ELSE Dict("altair_fig",
                        <<fig.data, fig.layout,
                          IF "config" \in DOMAIN fig THEN fig.config ELSE "None">>)
         ELSE EmptyDict
    ELSE PyNone

\* the parsed figure is the triple <<data, layout, config>>
_parse_plotly_output(output) ==
    IF output.output_type \in MediaTypes
    THEN IF "data" \notin DOMAIN output THEN Raise("KeyError")
         ELSE IF plotly_key \in DOMAIN output.data
         THEN LET fig == output.data[plotly_key] IN
              IF "data" \notin DOMAIN fig \/ "layout" \notin DOMAIN fig
              THEN Raise("KeyError")
              ELSE Dict("plotly_fig",
                        <<fig.data, fig.layout,
                          IF "config" \in DOMAIN fig THEN fig.config ELSE "None">>)
         ELSE EmptyDict
    ELSE PyNone

\* (mutant) the HTML matcher without its exclusion of Plotly records
html_without_plotly_check(output) ==
    IF output.output_type \in MediaTypes
    THEN IF "data" \notin DOMAIN output THEN Raise("KeyError")
         ELSE IF "text/html" \in DOMAIN output.data
         THEN Dict("text/html", Join(output.data["text/html"]))
         ELSE PyNone
    ELSE PyNone

_parse_html_output(output) ==
    IF output.output_type \in MediaTypes
    THEN IF "data" \notin DOMAIN output THEN Raise("KeyError")
         ELSE IF "text/html" \in DOMAIN output.data
                 /\ plotly_key \notin DOMAIN output.data
         THEN Dict("text/html", Join(output.data["text/html"]))
         ELSE PyNone
    ELSE PyNone

\* (mutant) the image matcher looking output['data'] up before it tests
\* output_type
image_reading_data_first(output) ==
    IF "data" \notin DOMAIN output THEN Raise("KeyError")
    ELSE IF output.output_type \in MediaTypes
            /\ plotly_key \notin DOMAIN output.data
    THEN IF "image/png" \in DOMAIN output.data
         THEN Dict("image/png", Strip(output.data["image/png"]))
         ELSE PyNone
    ELSE PyNone

\* the test of output_type short-circuits the lookup of output['data']
_parse_image_output(output) ==
    IF output.output_type \in MediaTypes
    THEN IF "data" \notin DOMAIN output THEN Raise("KeyError")
         ELSE IF plotly_key \notin DOMAIN output.data
         THEN IF "image/png" \in DOMAIN output.data
              THEN Dict("image/png", Strip(output.data["image/png"]))
              ELSE PyNone
         ELSE PyNone
    ELSE PyNone

_parse_plain_text_output(output) ==
    IF output.output_type \in MediaTypes
    THEN IF "data" \notin DOMAIN output THEN Raise("KeyError")
         ELSE IF "text/plain" \in DOMAIN output.data
                 /\ "text/html" \notin DOMAIN output.data
         THEN Dict("text/plain", Join(output.data["text/plain"]))
         ELSE PyNone
    ELSE PyNone

_parse_error_output(output) ==
    IF output.output_type = "error"
    THEN IF "ename" \notin DOMAIN output THEN Raise("KeyError")
         ELSE Dict("error", output.ename)
    ELSE PyNone

---------------------------------------------------------------------------
(* parse/parse.py: Cell, Code                                              *)

\* Cell.__init__: self._source = "".join(cell_dict['source'])
Source(cell) == Join(cell.source)

\* Cell.__init__: self._tags = self._metadata.get("tags", [])
Tags(cell) ==
    IF "tags" \in DOMAIN cell.metadata THEN cell.metadata.tags ELSE {}

parsing_functions ==
    <<"_parse_stream_output", "_parse_plotly_output", "_parse_html_output",
      "_parse_image_output", "_parse_plain_text_output", "_parse_error_output">>

\* func(output) for func in parsing_functions
Parse(func, output) ==
    CASE func = "_parse_stream_output" -> _parse_stream_output(output)
      [] func = "_parse_plotly_output" -> _parse_plotly_output(output)
      [] func = "_parse_html_output" -> _parse_html_output(output)
      [] func = "_parse_image_output" -> _parse_image_output(output)
      [] func = "_parse_plain_text_output" -> _parse_plain_text_output(output)
      [] func = "_parse_error_output" -> _parse_error_output(output)

\* (mutant) whatever is not None is appended, the empty dict too
appended_unless_none(parsed, i) ==
    IF parsed.type = "dict" THEN parsed @@ [rec |-> i] ELSE PyNone

\* outputs.append(func(output) if func(output) else None); rec is a ghost
\* field: the index of the raw record the entry was parsed from
Appended(parsed, i) ==
    IF Truthy(parsed) THEN parsed @@ [rec |-> i] ELSE PyNone

RECURSIVE _outputs_loop(_, _, _, _)
\* the two nested loops of Code._outputs, at record i and function f
_outputs_loop(raw, i, f, outputs) ==
    IF i > Len(raw) THEN [type |-> "list", list |-> outputs]
    ELSE IF f > Len(parsing_functions) THEN _outputs_loop(raw, i + 1, 1, outputs)
    ELSE LET parsed == Parse(parsing_functions[f], raw[i]) IN
         IF parsed.type = "raise" THEN parsed
         ELSE _outputs_loop(raw, i, f + 1, Append(outputs, Appended(parsed, i)))

\* Code._outputs: None, the list of parsed outputs, or the exception raised
_outputs(cell) ==
    IF Len(cell.outputs) = 0 THEN PyNone
    ELSE LET outputs == _outputs_loop(cell.outputs, 1, 1, <<>>) IN
         IF outputs.type = "raise" THEN outputs
         ELSE [type |-> "list",
               list |-> SelectSeq(outputs.list, LAMBDA o : o # PyNone)]

---------------------------------------------------------------------------
(* The renderer.  A display function takes the renderer's state st =       *)
(* [calls, raised, n, fault] (the calls made, the exception under way, the *)
(* number of calls attempted, the call that is to fail) and gives the      *)
(* state it leaves.  A call is [fn, arg, kw]: the function, its argument   *)
(* and its keyword arguments.                                              *)

NoFault == [at |-> 0, exc |-> "None"]
Start(f) == [calls |-> <<>>, raised |-> "None", n |-> 0, fault |-> f]

Call(fn, arg, kw) == [fn |-> fn, arg |-> arg, kw |-> kw]

\* one call against the renderer: it is made unless an exception is under
\* way, and it fails when it is the call that fault names
Render(st, call) ==
    IF st.raised # "None" THEN st
    ELSE IF st.fault.at = st.n + 1
    THEN [st EXCEPT !.n = @ + 1, !.raised = st.fault.exc]
    ELSE [st EXCEPT !.n = @ + 1, !.calls = Append(@, call)]

\* an exception raised by the code itself
Throw(st, exc) == IF st.raised # "None" THEN st ELSE [st EXCEPT !.raised = exc]

\* with st.expander(label): Body.  The section is closed when the block is
\* left, also by an exception, which goes on to the caller
Expander(st, label, Body(_)) ==
    LET entered == Render(st, Call("st.expander", <<label>>, <<>>)) IN
    IF entered.raised # "None" THEN entered
    ELSE LET left == Body(entered) IN
         [left EXCEPT !.calls = Append(@, Call("expander.__exit__", <<>>, <<>>))]

\* Code._display_source: st.code(self.source), without a language
_display_source(cell, st) ==
    IF st.raised = "None" /\ Len(Source(cell)) > 0
    THEN Render(st, Call("st.code", Source(cell), <<>>))
    ELSE st

\* (mutant) a dispatch table without the entries of text/plain and error
display_keys_without_plain_text(key, value, language, st) ==
    CASE key = "plotly_fig" -> Render(st, Call("_display_plotly", value, <<>>))
      [] key = "altair_fig" -> Render(st, Call("_display_vega_lite", value, <<>>))
      [] key = "text/html" -> Render(st, Call("_display_dataframe", value, <<>>))
      [] key = "image/png" -> Render(st, Call("_display_image", value, <<>>))
      [] key = "stdout" ->
            Render(st, Call("st.code", value, <<"language", language>>))
      [] OTHER -> Throw(st, "KeyError")

\* display_keys[key](value) in Code._display_outputs
display_keys(key, value, language, st) ==
    CASE key = "plotly_fig" -> Render(st, Call("_display_plotly", value, <<>>))
      [] key = "altair_fig" -> Render(st, Call("_display_vega_lite", value, <<>>))
      [] key = "text/html" -> Render(st, Call("_display_dataframe", value, <<>>))
      [] key = "image/png" -> Render(st, Call("_display_image", value, <<>>))
      [] key = "text/plain" ->
            Render(st, Call("st.code", value, <<"language", language>>))
      [] key = "stdout" ->
            Render(st, Call("st.code", value, <<"language", language>>))
      [] key = "error" -> Render(st, Call("st.error", value, <<>>))
      [] OTHER -> Throw(st, "KeyError")

RECURSIVE display_items(_, _, _)
\* for key, value in output.items(): display_keys[key](value)
display_items(items, language, st) ==
    IF items = <<>> THEN st
    ELSE display_items(Tail(items), language,
            display_keys(Head(items).key, Head(items).value, language, st))

RECURSIVE display_each(_, _, _)
\* for output in self._outputs
display_each(outputs, language, st) ==
    IF outputs = <<>> THEN st
    ELSE display_each(Tail(outputs), language,
            display_items(Head(outputs).items, language, st))

\* (mutant) a cell without outputs is shown an empty output block
display_outputs_without_none_check(cell, language, st) ==
    IF st.raised # "None" THEN st
    ELSE LET outputs == _outputs(cell) IN
         IF outputs.type = "raise" THEN Throw(st, outputs.exc)
         ELSE IF outputs.type = "None"
         THEN Render(st, Call("st.code", <<>>, <<"language", language>>))
         ELSE display_each(outputs.list, language, st)

RECURSIVE display_record_by_record(_, _, _)
\* (mutant) every record is classified when its turn to be rendered comes
display_record_by_record(raw, language, st) ==
    IF raw = <<>> \/ st.raised # "None" THEN st
    ELSE LET outputs == _outputs([outputs |-> <<Head(raw)>>]) IN
         display_record_by_record(Tail(raw), language,
            IF outputs.type = "raise" THEN Throw(st, outputs.exc)
            ELSE display_each(outputs.list, language, st))

\* (mutant) the outputs are classified one at a time, while they are rendered
display_outputs_classifying_lazily(cell, language, st) ==
    display_record_by_record(cell.outputs, language, st)

\* Code._display_outputs; self._outputs is evaluated before anything is
\* rendered
_display_outputs(cell, language, st) ==
    IF st.raised # "None" THEN st
    ELSE LET outputs == _outputs(cell) IN
         IF outputs.type = "raise" THEN Throw(st, outputs.exc)
         ELSE IF outputs.type = "None" THEN st
         ELSE display_each(outputs.list, language, st)

\* (mutant) hide_output is tested before hide_input
code_display_ho_first(cell, language, st) ==
    LET tags == Tags(cell) IN
    IF "skip" \in tags THEN st
    ELSE IF "ho" \in tags \/ "hide_output" \in tags
    THEN _display_source(cell, st)
    ELSE IF "hi" \in tags \/ "hide_input" \in tags
    THEN _display_outputs(cell, language, st)
    ELSE IF "ci" \in tags \/ "collapsed_input" \in tags
    THEN _display_outputs(cell, language,
            Expander(st, "See hidden source code...",
                     LAMBDA s : _display_source(cell, s)))
    ELSE IF "co" \in tags \/ "collapsed_output" \in tags
    THEN Expander(_display_source(cell, st), "See hidden output...",
                  LAMBDA s : _display_outputs(cell, language, s))
    ELSE _display_outputs(cell, language, _display_source(cell, st))

\* (mutant) a cell is shown in full only when it has no tag at all
code_display_untagged_only(cell, language, st) ==
    LET tags == Tags(cell) IN
    IF "skip" \in tags THEN st
    ELSE IF "hi" \in tags \/ "hide_input" \in tags
    THEN _display_outputs(cell, language, st)
    ELSE IF "ho" \in tags \/ "hide_output" \in tags
    THEN _display_source(cell, st)
    ELSE IF "ci" \in tags \/ "collapsed_input" \in tags
    THEN _display_outputs(cell, language,
            Expander(st, "See hidden source code...",
                     LAMBDA s : _display_source(cell, s)))
    ELSE IF "co" \in tags \/ "collapsed_output" \in tags
    THEN Expander(_display_source(cell, st), "See hidden output...",
                  LAMBDA s : _display_outputs(cell, language, s))
    ELSE IF tags = {}
    THEN _display_outputs(cell, language, _display_source(cell, st))
    ELSE st

\* (mutant) under ci the outputs are shown inside the section too
code_display_ci_collapsing_all(cell, language, st) ==
    LET tags == Tags(cell) IN
    IF "skip" \in tags THEN st
    ELSE IF "hi" \in tags \/ "hide_input" \in tags
    THEN _display_outputs(cell, language, st)
    ELSE IF "ho" \in tags \/ "hide_output" \in tags
    THEN _display_source(cell, st)
    ELSE IF "ci" \in tags \/ "collapsed_input" \in tags
    THEN Expander(st, "See hidden source code...",
                  LAMBDA s : _display_outputs(cell, language,
                                              _display_source(cell, s)))
    ELSE IF "co" \in tags \/ "collapsed_output" \in tags
    THEN Expander(_display_source(cell, st), "See hidden output...",
                  LAMBDA s : _display_outputs(cell, language, s))
    ELSE _display_outputs(cell, language, _display_source(cell, st))

\* Code.display
code_display(cell, language, st) ==
    LET tags == Tags(cell) IN
    IF "skip" \in tags THEN st
    ELSE IF "hi" \in tags \/ "hide_input" \in tags
    THEN _display_outputs(cell, language, st)
    ELSE IF "ho" \in tags \/ "hide_output" \in tags
    THEN _display_source(cell, st)
    ELSE IF "ci" \in tags \/ "collapsed_input" \in tags
    THEN _display_outputs(cell, language,
            Expander(st, "See hidden source code...",
                     LAMBDA s : _display_source(cell, s)))
    ELSE IF "co" \in tags \/ "collapsed_output" \in tags
    THEN Expander(_display_source(cell, st), "See hidden output...",
                  LAMBDA s : _display_outputs(cell, language, s))
    ELSE _display_outputs(cell, language, _display_source(cell, st))

---------------------------------------------------------------------------
(* parse/parse.py: Markdown                                                *)
(* In a markdown source the delimiters of an attachment reference are kept *)
(* as single elements "![", "](attachment:" and ")"; every other element   *)
(* is one character that is none of ! [ ] ( ).                             *)

Max(S) == CHOOSE x \in S : \A y \in S : y <= x
Min(S) == CHOOSE x \in S : \A y \in S : x <= y

\* the last element of the match of r"!\[.+]\(attachment:.+\)" that starts
\* at s[p], 0 when there is none: "." matches no newline and ".+" is
\* greedy, so the match runs to the last ")" of the line
MatchEnd(s, p) ==
    LET newlines == {k \in p + 1..Len(s) : s[k] = "\n"}
        eol == IF newlines = {} THEN Len(s) + 1 ELSE Min(newlines)
        closing == {k \in p + 1..eol - 1 : s[k] = ")"}
    IN IF s[p] = "![" /\ closing # {}
          /\ \E q \in p + 2..Max(closing) - 2 : s[q] = "](attachment:"
       THEN Max(closing) ELSE 0

RECURSIVE re_split(_, _, _, _)
\* re.split(r"!\[.+]\(attachment:.+\)", s), scanning from s[p] with the
\* segments splitted so far and the segment cur under way
re_split(s, p, cur, splitted) ==
    IF p > Len(s) THEN Append(splitted, cur)
    ELSE IF MatchEnd(s, p) # 0
    THEN re_split(s, MatchEnd(s, p) + 1, <<>>, Append(splitted, cur))
    ELSE re_split(s, p + 1, Append(cur, s[p]), splitted)

RECURSIVE attachment_values(_)
\* for _, value in attachment.items(): attach_list.append(value)
attachment_values(content) ==
    IF content = <<>> THEN <<>>
    ELSE <<Head(content).value>> \o attachment_values(Tail(content))

RECURSIVE attach_list(_)
\* for _, attachment in self._raw_attachments.items()
attach_list(raw_attachments) ==
    IF raw_attachments = <<>> THEN <<>>
    ELSE attachment_values(Head(raw_attachments).content)
         \o attach_list(Tail(raw_attachments))

\* Markdown._attachments; cell_dict.get('attachments', None)
_attachments(cell) ==
    IF "attachments" \in DOMAIN cell THEN attach_list(cell.attachments)
    ELSE <<>>

\* (mutant) the image lookup outside any try: IndexError reaches the caller
segment_unguarded(source, index, attachments, st) ==
    LET shown == Render(st, Call("st.markdown", source, <<>>)) IN
    IF index <= Len(attachments)
    THEN Render(shown, Call("_display_image", attachments[index], <<>>))
    ELSE Throw(shown, "IndexError")

\* one turn of the loop of _display_parsing_attachments: st.markdown(source),
\* then _display_image(self._attachments[index]) inside try/except
\* IndexError, which also takes an IndexError of _display_image itself
segment(source, index, attachments, st) ==
    LET shown == Render(st, Call("st.markdown", source, <<>>))
        image == IF index <= Len(attachments)
                 THEN Render(shown,
                             Call("_display_image", attachments[index], <<>>))
                 ELSE Throw(shown, "IndexError")
    IN IF shown.raised = "None" /\ image.raised = "IndexError"
       THEN [image EXCEPT !.raised = "None"]
       ELSE image

RECURSIVE segments(_, _, _, _)
\* for index, source in enumerate(splitted_source); index counts from 1
segments(splitted_source, index, attachments, st) ==
    IF index > Len(splitted_source) THEN st
    ELSE segments(splitted_source, index + 1, attachments,
                  segment(splitted_source[index], index, attachments, st))

\* Markdown._display_parsing_attachments
_display_parsing_attachments(cell, st) ==
    IF st.raised # "None" THEN st
    ELSE IF _attachments(cell) # <<>>
    THEN segments(re_split(Source(cell), 1, <<>>, <<>>), 1,
                  _attachments(cell), st)
    ELSE Render(st, Call("st.markdown", Source(cell), <<"unsafe_allow_html">>))

\* (mutant) ci is tested before skip
markdown_display_ci_first(cell, st) ==
    IF "ci" \in Tags(cell)
    THEN Expander(st, "See collapsed cell",
                  LAMBDA s : _display_parsing_attachments(cell, s))
    ELSE IF "skip" \in Tags(cell) THEN st
    ELSE _display_parsing_attachments(cell, st)

\* Markdown.display
markdown_display(cell, st) ==
    IF "skip" \in Tags(cell) THEN st
    ELSE IF "ci" \in Tags(cell)
    THEN Expander(st, "See collapsed cell",
                  LAMBDA s : _display_parsing_attachments(cell, s))
    ELSE _display_parsing_attachments(cell, st)

---------------------------------------------------------------------------
(* parse/parse.py: StreamlitBook                                           *)

\* StreamlitBook.__init__: a cell is a Code if its cell_type is 'code' and a
\* Markdown otherwise, and a Code is given the language of the book
cell_display(cell, book_metadata, st) ==
    IF cell.cell_type = "code"
    THEN code_display(cell, book_metadata.kernelspec.language, st)
    ELSE markdown_display(cell, st)

RECURSIVE book_display_from_the_end(_, _, _)
\* (mutant) the cells are displayed from the last to the first
book_display_from_the_end(cells, book_metadata, st) ==
    IF cells = <<>> \/ st.raised # "None" THEN st
    ELSE cell_display(Head(cells), book_metadata,
            book_display_from_the_end(Tail(cells), book_metadata, st))

RECURSIVE book_display(_, _, _)
\* StreamlitBook.display: for cell in self.cells: cell.display()
book_display(cells, book_metadata, st) ==
    IF cells = <<>> \/ st.raised # "None" THEN st
    ELSE book_display(Tail(cells), book_metadata,
                      cell_display(Head(cells), book_metadata, st))

\* the stop k of lst[:k] and the start of lst[k:], for a list of n elements
SliceIndex(k, n) ==
    IF k < 0 THEN (IF k + n < 0 THEN 0 ELSE k + n)
    ELSE IF k > n THEN n ELSE k

\* (mutant) the second book starts one cell late
split_dropping_a_cell(cells, book_metadata, idx_to_split) ==
    LET k == SliceIndex(idx_to_split, Len(cells)) IN
    << [cell_dict |-> SubSeq(cells, 1, k), metadata |-> book_metadata],
       [cell_dict |-> SubSeq(cells, k + 2, Len(cells)),
        metadata |-> book_metadata] >>

\* (mutant) a negative index is taken for 0 instead of counting from the end
split_without_negative_indices(cells, book_metadata, idx_to_split) ==
    LET k == IF idx_to_split < 0 THEN 0
             ELSE IF idx_to_split > Len(cells) THEN Len(cells)
             ELSE idx_to_split
    IN << [cell_dict |-> SubSeq(cells, 1, k), metadata |-> book_metadata],
          [cell_dict |-> SubSeq(cells, k + 1, Len(cells)),
           metadata |-> book_metadata] >>

\* (mutant) the second book is not given the metadata of the book
split_losing_the_language(cells, book_metadata, idx_to_split) ==
    LET k == SliceIndex(idx_to_split, Len(cells)) IN
    << [cell_dict |-> SubSeq(cells, 1, k), metadata |-> book_metadata],
       [cell_dict |-> SubSeq(cells, k + 1, Len(cells)),
        metadata |-> [kernelspec |-> [language |-> "python"]]] >>

\* StreamlitBook.split: the two books made of self._cell_dict[:idx_to_split]
\* and self._cell_dict[idx_to_split:], each with self._metadata
split(cells, book_metadata, idx_to_split) ==
    LET k == SliceIndex(idx_to_split, Len(cells)) IN
    << [cell_dict |-> SubSeq(cells, 1, k), metadata |-> book_metadata],
       [cell_dict |-> SubSeq(cells, k + 1, Len(cells)),
        metadata |-> book_metadata] >>

---------------------------------------------------------------------------
(* The notebooks the operations are applied to                             *)

EmptyMap == [k \in {} |-> <<>>]
Seqs(S, n) == UNION {[1..k -> S] : k \in 0..n}

RecognizedKeys == {plotly_key, "text/html", "image/png", "text/plain"}

\* the payload a kernel stores under a MIME key
Payload(key) ==
    CASE key = plotly_key -> [data |-> "D", layout |-> "L"]
      [] key = "text/html" -> << <<"<">>, <<"t">> >>
      [] key = "image/png" -> <<"P", "\n">>
      [] key = "text/plain" -> << <<"p">> >>
      [] OTHER -> << <<"j">> >>

\* display_data records of every set of recognized keys, and execute_result
\* records of every such set with text/plain, which a kernel always gives
\* the value of a cell
MediaRecords ==
    {[output_type |-> "display_data", data |-> [k \in K |-> Payload(k)]] :
        K \in SUBSET RecognizedKeys}
    \cup {[output_type |-> "execute_result", data |-> [k \in K |-> Payload(k)]] :
        K \in {L \in SUBSET RecognizedKeys : "text/plain" \in L}}
    \cup {[output_type |-> "display_data",
           data |-> [k \in {"application/json"} |-> Payload(k)]],
          [output_type |-> "execute_result",
           data |-> [k \in {plotly_key, "text/html"} |->
                        IF k = plotly_key
                        THEN [data |-> "D", layout |-> "L", config |-> "C"]
                        ELSE Payload(k)]]}

StreamRecords ==
    {[output_type |-> "stream", text |-> << <<"a">>, <<"b">> >>],
     [output_type |-> "stream", text |-> <<>>]}

\* an error record has no payload map; one that has it all the same is
\* classified by its output_type
ErrorRecords ==
    {[output_type |-> "error", ename |-> e] : e \in {<<"E">>, <<"V">>}}
    \cup {[output_type |-> "error", ename |-> <<"E">>,
           data |-> [k \in K |-> Payload(k)]] :
             K \in {{"text/html", "image/png"}}}

\* a media record without its payload map
MalformedRecords == {[output_type |-> "display_data"]}

RawOutputs == MediaRecords \cup StreamRecords \cup ErrorRecords
              \cup MalformedRecords

Languages == {"python", "julia"}
BookMetadata == {[kernelspec |-> [language |-> l]] : l \in Languages}

CodeTags == {"skip", "hi", "hide_input", "ho", "hide_output", "ci",
             "collapsed_input", "co", "collapsed_output"}
AllTags == CodeTags \cup {"other"}
CellMetadata == {EmptyMap} \cup {[tags |-> T] : T \in SUBSET AllTags}

CodeCell(m, source, outputs) ==
    [cell_type |-> "code", metadata |-> m, source |-> source,
     outputs |-> outputs]

CodeSources == {<<>>, << <<"x">>, <<"y">> >>}

Faults == {NoFault} \cup [at : 1..MaxFaultAt, exc : {"IndexError", "ValueError"}]

---------------------------------------------------------------------------
(* The operations                                                          *)

Untouched == [name |-> "none", arg |-> 0]

Fresh ==
    /\ calls = <<>>
    /\ raised = "None"
    /\ returned = PyNone
    /\ fault = NoFault
    /\ op = Untouched

\* the renderer's state after an operation
Left(st, name, arg) ==
    /\ calls' = st.calls
    /\ raised' = st.raised
    /\ returned' = PyNone
    /\ fault' = IF st.fault.at \in 1..st.n THEN st.fault ELSE NoFault
    /\ op' = [name |-> name, arg |-> arg]
    /\ UNCHANGED <<cell_dict, metadata>>

\* book[i]._outputs
GetOutputs ==
    \E i \in 1..Len(cell_dict) :
        /\ cell_dict[i].cell_type = "code"
        /\ LET outputs == _outputs(cell_dict[i]) IN
            /\ returned' = IF outputs.type = "raise" THEN PyNone ELSE outputs
            /\ raised' = IF outputs.type = "raise" THEN outputs.exc ELSE "None"
        /\ calls' = <<>>
        /\ fault' = NoFault
        /\ op' = [name |-> "_outputs", arg |-> i]
        /\ UNCHANGED <<cell_dict, metadata>>

\* book[i].display(), with a renderer that fails as some f \in F says
DisplayCellUnder(F) ==
    \E i \in 1..Len(cell_dict), f \in F :
        Left(cell_display(cell_dict[i], metadata, Start(f)), "cell.display", i)

\* book[i].display()
DisplayCell == DisplayCellUnder(Faults)

\* book[i].display() with a renderer that does not fail
DisplayCellSound == DisplayCellUnder({NoFault})

\* book.display()
DisplayBook ==
    \E f \in Faults :
        Left(book_display(cell_dict, metadata, Start(f)), "display", 0)

\* book.split(idx_to_split)
Split ==
    \E idx_to_split \in -(MaxCells + 1)..(MaxCells + 1) :
        /\ returned' = [type |-> "tuple",
                        books |-> split(cell_dict, metadata, idx_to_split)]
        /\ calls' = <<>>
        /\ raised' = "None"
        /\ fault' = NoFault
        /\ op' = [name |-> "split", arg |-> idx_to_split]
        /\ UNCHANGED <<cell_dict, metadata>>

\* first, second = book.split(idx_to_split), then first.display() and
\* second.display(): the second is not reached when the first raises
DisplayHalves ==
    /\ op.name = "split"
    /\ LET first == returned.books[1]
           second == returned.books[2]
           st == book_display(second.cell_dict, second.metadata,
                    book_display(first.cell_dict, first.metadata,
                                 Start(NoFault)))
       IN /\ calls' = st.calls
          /\ raised' = st.raised
    /\ returned' = returned
    /\ fault' = NoFault
    /\ op' = [name |-> "halves.display", arg |-> op.arg]
    /\ UNCHANGED <<cell_dict, metadata>>

---------------------------------------------------------------------------
(* Code cells of every output list: classification                         *)

InitOutputs ==
    /\ metadata \in BookMetadata
    /\ \E outputs \in Seqs(RawOutputs, MaxOutputs) :
          cell_dict = <<CodeCell(EmptyMap, << <<"x">> >>, outputs)>>
    /\ Fresh

NextOutputs == GetOutputs \/ DisplayCellSound

SpecOutputs == InitOutputs /\ [][NextOutputs]_vars

---------------------------------------------------------------------------
(* Cells of every tag set: the display rules                               *)

TaggedOutputs ==
    {<<>>,
     <<[output_type |-> "stream", text |-> << <<"a">>, <<"b">> >>]>>,
     <<[output_type |-> "display_data",
        data |-> [k \in {"text/html"} |-> Payload(k)]],
       [output_type |-> "error", ename |-> <<"E">>]>>}

Attachment(name, content) == [name |-> name, content |-> content]
Image(value) == [mime |-> "image/png", value |-> value]

TaggedMarkdown(m) ==
    {[cell_type |-> "markdown", metadata |-> m, source |-> << <<"s">> >>],
     [cell_type |-> "markdown", metadata |-> m, source |-> <<>>],
     [cell_type |-> "markdown", metadata |-> m,
      source |-> << <<"s">>, <<"![", "i", "](attachment:", "a", ")">> >>,
      attachments |-> <<Attachment(<<"a">>, <<Image(<<"A">>)>>)>>]}

InitTags ==
    /\ metadata \in BookMetadata
    /\ \E m \in CellMetadata :
          \/ \E source \in CodeSources, outputs \in TaggedOutputs :
                cell_dict = <<CodeCell(m, source, outputs)>>
          \/ \E cell \in TaggedMarkdown(m) : cell_dict = <<cell>>
    /\ Fresh

NextTags == DisplayCell

SpecTags == InitTags /\ [][NextTags]_vars

---------------------------------------------------------------------------
(* Markdown cells with attachments                                         *)

Pieces ==
    {<<"s">>, <<"\n">>, <<")">>,
     <<"![", "i", "](attachment:", "a", ")">>,
     <<"![", "i", "](attachment:", "b", ")">>,
     <<"![", "](attachment:", "a", ")">>}

\* the attachments of a cell, in the order of the notebook's JSON
Attachments ==
    {Attachment(<<"a">>, <<Image(<<"A">>)>>),
     Attachment(<<"b">>, <<Image(<<"B">>)>>),
     Attachment(<<"c">>, <<Image(<<"C">>),
                           [mime |-> "image/jpeg", value |-> <<"J">>]>>)}

AttachmentLists ==
    {l \in Seqs(Attachments, MaxAttachments) :
        \A i, j \in 1..Len(l) : i # j => l[i].name # l[j].name}

InitMarkdown ==
    /\ metadata \in BookMetadata
    /\ \E m \in {EmptyMap, [tags |-> {"ci"}]}, source \in Seqs(Pieces, MaxPieces) :
          \/ cell_dict = <<[cell_type |-> "markdown", metadata |-> m,
                            source |-> source]>>
          \/ \E l \in AttachmentLists :
                cell_dict = <<[cell_type |-> "markdown", metadata |-> m,
                               source |-> source, attachments |-> l]>>
    /\ Fresh

NextMarkdown == DisplayCellSound

SpecMarkdown == InitMarkdown /\ [][NextMarkdown]_vars

---------------------------------------------------------------------------
(* Books of several cells                                                  *)

BookCells ==
    {CodeCell(EmptyMap, << <<"x">> >>,
              <<[output_type |-> "stream", text |-> << <<"a">>, <<"b">> >>]>>),
     CodeCell([tags |-> {"hi"}], << <<"y">> >>,
              <<[output_type |-> "error", ename |-> <<"E">>]>>),
     [cell_type |-> "markdown", metadata |-> EmptyMap, source |-> << <<"s">> >>],
     [cell_type |-> "markdown", metadata |-> [tags |-> {"skip"}],
      source |-> << <<"t">> >>]}

InitBook ==
    /\ metadata \in BookMetadata
    /\ cell_dict \in Seqs(BookCells, MaxCells)
    /\ Fresh

NextBook == Split \/ DisplayBook \/ DisplayHalves

SpecBook == InitBook /\ [][NextBook]_vars

---------------------------------------------------------------------------
(* Properties: classification (SpecOutputs)                                *)

\* the cell the last operation was applied to
TheCell == cell_dict[op.arg]

Classified == op.name = "_outputs" /\ returned.type = "list"

\* the entries of the classified list that were parsed from raw record i
EntriesOf(i) == SelectSeq(returned.list, LAMBDA o : o.rec = i)

\* the parsing functions, by their place in the order stream, plotly, html,
\* image, plain text, error, whose predicate holds of a record
Matching(output) ==
    {f \in 1..Len(parsing_functions) :
        Truthy(Parse(parsing_functions[f], output))}

HasKeys(output, keys) ==
    "data" \in DOMAIN output /\ keys \subseteq DOMAIN output.data

\* C1: every raw output record of a code cell has at most one entry in the
\* cell's classified output list, and that entry is the one of the first
\* parsing function, in the order stream, plotly, html, image, plain text,
\* error, whose predicate holds of the record.
C1_AtMostOnePerRecord ==
    Classified =>
        \A i \in 1..Len(TheCell.outputs) :
            LET matching == Matching(TheCell.outputs[i]) IN
            /\ Len(EntriesOf(i)) <= 1
            /\ matching # {} =>
                 EntriesOf(i)[1].items =
                    Parse(parsing_functions[Min(matching)],
                          TheCell.outputs[i]).items

\* C2: a display_data or execute_result record whose payload map has the
\* Plotly key has exactly one entry in the classified list, a plotly_fig,
\* whatever other MIME keys the payload map has.
C2_PlotlyAlone ==
    Classified =>
        \A i \in 1..Len(TheCell.outputs) :
            LET output == TheCell.outputs[i] IN
            (output.output_type \in MediaTypes /\ HasKeys(output, {plotly_key}))
            => /\ Len(EntriesOf(i)) = 1
               /\ EntriesOf(i)[1].items[1].key = "plotly_fig"

\* C3: a record whose payload map has both the HTML key and the Plotly key
\* has no text/html entry in the classified list.
C3_NoHtmlWithPlotly ==
    Classified =>
        \A i \in 1..Len(TheCell.outputs) :
            HasKeys(TheCell.outputs[i], {"text/html", plotly_key})
            => \A j \in 1..Len(EntriesOf(i)) :
                  EntriesOf(i)[j].items[1].key # "text/html"

\* C3 witness: a record with both keys has been classified, as a figure
C3_Witness ==
    /\ Classified
    /\ \E i \in 1..Len(TheCell.outputs) :
          /\ HasKeys(TheCell.outputs[i], {"text/html", plotly_key})
          /\ Len(EntriesOf(i)) = 1
          /\ EntriesOf(i)[1].items[1].key = "plotly_fig"

\* C4: a record of output_type error has exactly one entry in the classified
\* list, of kind error and with the record's ename as payload, whatever other
\* fields the record has; and classification raises only when some record
\* that is not an error record lacks a field: no parsing function looks the
\* payload map of an error record up.
C4_ErrorRecords ==
    op.name = "_outputs" =>
        /\ returned.type = "list" =>
              \A i \in 1..Len(TheCell.outputs) :
                  TheCell.outputs[i].output_type = "error"
                  => /\ Len(EntriesOf(i)) = 1
                     /\ EntriesOf(i)[1].items =
                           <<[key |-> "error",
                              value |-> TheCell.outputs[i].ename]>>
        /\ (\A i \in 1..Len(TheCell.outputs) :
               LET output == TheCell.outputs[i] IN
               \/ output.output_type = "error" /\ "ename" \in DOMAIN output
               \/ output.output_type = "stream" /\ "text" \in DOMAIN output
               \/ output.output_type \in MediaTypes /\ "data" \in DOMAIN output)
           => raised = "None"

\* C4 witness: a cell with an error record that has no payload map, and one
\* that has a payload map, has been classified
C4_Witness ==
    /\ Classified
    /\ Len(TheCell.outputs) = 2
    /\ TheCell.outputs[1].output_type = "error"
    /\ "data" \notin DOMAIN TheCell.outputs[1]
    /\ TheCell.outputs[2].output_type = "error"
    /\ "data" \in DOMAIN TheCell.outputs[2]
    /\ Len(returned.list) = 2

---------------------------------------------------------------------------
(* Properties: the display rules (SpecTags)                                *)

Displayed(type) == op.name = "cell.display" /\ TheCell.cell_type = type

Open(label) == Call("st.expander", <<label>>, <<>>)
Close == Call("expander.__exit__", <<>>, <<>>)

\* the code block of a cell's source: st.code without a language
SourceCall(cell) == Call("st.code", Source(cell), <<>>)

\* what showing the source, and showing the outputs, of a cell amounts to
\* with a renderer that does not fail
SourceShown(cell) == IF Source(cell) = <<>> THEN <<>> ELSE <<SourceCall(cell)>>
OutputsShown(cell) ==
    _display_outputs(cell, metadata.kernelspec.language, Start(NoFault)).calls

\* the first rule of the fixed order that matches a code cell's tags
FirstRule(tags) ==
    CASE "skip" \in tags -> "skip"
      [] "skip" \notin tags /\ tags \cap {"hi", "hide_input"} # {} -> "outputs only"
      [] tags \cap {"skip", "hi", "hide_input"} = {}
         /\ tags \cap {"ho", "hide_output"} # {} -> "source only"
      [] tags \cap {"skip", "hi", "hide_input", "ho", "hide_output"} = {}
         /\ tags \cap {"ci", "collapsed_input"} # {} -> "collapsed input"
      [] tags \cap {"skip", "hi", "hide_input", "ho", "hide_output", "ci",
                    "collapsed_input"} = {}
         /\ tags \cap {"co", "collapsed_output"} # {} -> "collapsed output"
      [] OTHER -> "none"

\* C5: a code cell is displayed by the first rule that matches its tags in
\* the order skip; hi/hide_input (outputs only); ho/hide_output (source
\* only); ci/collapsed_input; co/collapsed_output; none (source, then
\* outputs).  A cell tagged hide_input and hide_output shows its outputs and
\* not its source.
C5_FirstRuleWins ==
    (Displayed("code") /\ fault = NoFault) =>
        LET rule == FirstRule(Tags(TheCell))
            src == SourceShown(TheCell)
            outs == OutputsShown(TheCell)
        IN /\ raised = "None"
           /\ calls =
                CASE rule = "skip" -> <<>>
                  [] rule = "outputs only" -> outs
                  [] rule = "source only" -> src
                  [] rule = "collapsed input" ->
                        <<Open("See hidden source code...")>> \o src
                        \o <<Close>> \o outs
                  [] rule = "collapsed output" ->
                        src \o <<Open("See hidden output...")>> \o outs
                        \o <<Close>>
                  [] rule = "none" -> src \o outs

\* C5 witness: a code cell tagged hide_input and hide_output, with a source
\* and outputs, has been displayed: outputs only
C5_Witness ==
    /\ Displayed("code")
    /\ fault = NoFault
    /\ {"hide_input", "hide_output"} \subseteq Tags(TheCell)
    /\ "skip" \notin Tags(TheCell)
    /\ Source(TheCell) # <<>>
    /\ Len(calls) = 2
    /\ \A k \in 1..Len(calls) : calls[k] # SourceCall(TheCell)

\* C6: displaying a cell, text or code, whose tags contain skip makes no
\* call against the renderer, whatever its other tags.
C6_SkipRendersNothing ==
    (op.name = "cell.display" /\ "skip" \in Tags(TheCell)) =>
        calls = <<>> /\ raised = "None"

\* C6 witness: a text cell tagged skip and ci, with a source, has been
\* displayed
C6_Witness ==
    /\ Displayed("markdown")
    /\ {"skip", "ci"} \subseteq Tags(TheCell)
    /\ Source(TheCell) # <<>>

\* C7: displaying a code cell with no output record calls no output
\* renderer, for every tag set: the only calls are the code block of the
\* source and, under ci or co, the opening and closing of the section.
C7_NoOutputsNoRenderer ==
    (Displayed("code") /\ TheCell.outputs = <<>>) =>
        /\ \A k \in 1..Len(calls) :
              \/ calls[k] = SourceCall(TheCell)
              \/ calls[k].fn \in {"st.expander", "expander.__exit__"}
        /\ Cardinality({k \in 1..Len(calls) : calls[k].fn = "st.code"}) <= 1
        /\ raised \in {"None", fault.exc}

\* C7 witness: a code cell without outputs, with a source and the tag co,
\* has been displayed: the source and an empty section
C7_Witness ==
    /\ Displayed("code")
    /\ TheCell.outputs = <<>>
    /\ Tags(TheCell) = {"co"}
    /\ calls = <<SourceCall(TheCell), Open("See hidden output..."), Close>>

---------------------------------------------------------------------------
(* Properties: split (SpecBook)                                            *)

Splitted == op.name = "split" /\ returned.type = "tuple"
n_cells == Len(cell_dict)

\* C8: for 0 <= i <= n, split(i) returns two books whose cells are the cells
\* [0, i) and [i, n) of the book, so that the two lists put together are the
\* book's cells in order, and both have the metadata (the language) of the
\* book.
C8_SplitPartitions ==
    (Splitted /\ op.arg \in 0..n_cells) =>
        LET book1 == returned.books[1]
            book2 == returned.books[2]
        IN /\ Len(book1.cell_dict) = op.arg
           /\ Len(book2.cell_dict) = n_cells - op.arg
           /\ \A j \in 1..op.arg : book1.cell_dict[j] = cell_dict[j]
           /\ \A j \in 1..(n_cells - op.arg) :
                 book2.cell_dict[j] = cell_dict[op.arg + j]
           /\ book1.cell_dict \o book2.cell_dict = cell_dict
           /\ book1.metadata = metadata
           /\ book2.metadata = metadata
           /\ raised = "None"

\* C8 witness: a book of three cells has been split inside, at 1
C8_Witness ==
    /\ Splitted
    /\ n_cells = 3
    /\ op.arg = 1
    /\ Len(returned.books[1].cell_dict) = 1
    /\ Len(returned.books[2].cell_dict) = 2

\* C9 (as claimed): split(index) with index > cell_count or index < 0 does
\* not fail and one of the two books it returns has no cell.
C9_OutOfRangeOneEmpty ==
    (Splitted /\ op.arg \notin 0..n_cells) =>
        /\ raised = "None"
        /\ \/ returned.books[1].cell_dict = <<>>
           \/ returned.books[2].cell_dict = <<>>

\* C9 (amended): split(index) with index > cell_count or index < 0 does not
\* fail.  With index > cell_count the second book has no cell and the first
\* has them all; with index <= -cell_count the first book has no cell and
\* the second has them all; with -cell_count < index < 0 the index counts
\* from the end: the first book has the first cell_count + index cells and
\* the second the last -index cells.
C9_OutOfRangeSlices ==
    (Splitted /\ op.arg \notin 0..n_cells) =>
        LET book1 == returned.books[1].cell_dict
            book2 == returned.books[2].cell_dict
        IN /\ raised = "None"
           /\ book1 \o book2 = cell_dict
           /\ op.arg > n_cells => book2 = <<>>
           /\ op.arg <= -n_cells => book1 = <<>>
           /\ (op.arg < 0 /\ op.arg > -n_cells) =>
                 /\ Len(book1) = n_cells + op.arg
                 /\ Len(book2) = -op.arg

\* C9 witness: a book of three cells has been split at -1: neither book is
\* empty
C9_Witness ==
    /\ Splitted
    /\ n_cells = 3
    /\ op.arg = -1
    /\ Len(returned.books[1].cell_dict) = 2
    /\ Len(returned.books[2].cell_dict) = 1

---------------------------------------------------------------------------
(* Properties: attachments (SpecMarkdown)                                  *)

\* the text segments of a cell's source and the payloads of its attachments
SegmentsOf(cell) == re_split(Source(cell), 1, <<>>, <<>>)
PayloadsOf(cell) == _attachments(cell)

\* the calls made for the cell itself, without the section of the tag ci
Body == IF "ci" \in Tags(TheCell) /\ Len(calls) >= 2
        THEN SubSeq(calls, 2, Len(calls) - 1) ELSE calls

\* C10: a text cell with S segments and A >= 1 attachment payloads is
\* rendered as, for i = 1..S in order, the text of segment i and then the
\* image of payload i if i <= A: segments after the A-th are text only,
\* payloads after the S-th are not rendered, the pairing is by position and
\* no error is raised when the counts differ.
C10_PositionalPairing ==
    (Displayed("markdown") /\ "skip" \notin Tags(TheCell)
        /\ Len(PayloadsOf(TheCell)) >= 1) =>
        LET segs == SegmentsOf(TheCell)
            atts == PayloadsOf(TheCell)
            S == Len(segs)
            A == Len(atts)
            \* the place of the text of segment i among the calls
            at(i) == i + (IF i - 1 < A THEN i - 1 ELSE A)
        IN /\ raised = "None"
           /\ Len(Body) = S + (IF S < A THEN S ELSE A)
           /\ \A i \in 1..S :
                 /\ Body[at(i)] = Call("st.markdown", segs[i], <<>>)
                 /\ i <= A =>
                       Body[at(i) + 1] = Call("_display_image", atts[i], <<>>)

\* C10 witness: a cell of three segments whose first reference names b and
\* whose one attachment is a has been displayed: the image of a after the
\* first segment, and text only after it
C10_Witness ==
    /\ Displayed("markdown")
    /\ Tags(TheCell) = {}
    /\ Len(SegmentsOf(TheCell)) = 3
    /\ Source(TheCell)[4] = "b"
    /\ "attachments" \in DOMAIN TheCell
    /\ Len(TheCell.attachments) = 1
    /\ TheCell.attachments[1].name = <<"a">>
    /\ Len(calls) = 4
    /\ calls[2] = Call("_display_image", <<"A">>, <<>>)
    /\ calls[3].fn = "st.markdown"
    /\ calls[4].fn = "st.markdown"

---------------------------------------------------------------------------
(* Properties: the language of code blocks (SpecTags)                      *)

\* the language st.code renders a block in: the keyword argument, and
\* python when there is none ("Because the default is Python.")
LanguageOf(call) == IF call.kw = <<>> THEN "python" ELSE call.kw[2]

\* C11: the code block of a non-empty source carries the language of the
\* book's metadata, whatever that language is, and an empty source has no
\* code block.
C11_SourceInCellLanguage ==
    Displayed("code") =>
        /\ \A k \in 1..Len(calls) :
              calls[k].fn = "st.code" =>
                  LanguageOf(calls[k]) = metadata.kernelspec.language
        /\ (Source(TheCell) = <<>> /\ TheCell.outputs = <<>>) =>
              \A k \in 1..Len(calls) : calls[k].fn # "st.code"


---------------------------------------------------------------------------
(* Properties: classification and display of outputs (SpecOutputs)         *)

\* the items of the classified entries parsed from raw record i
ItemsOf(i) == [k \in 1..Len(EntriesOf(i)) |-> EntriesOf(i)[k].items]

\* the code block of an output: st.code with the language of the book
OutputCode(value) ==
    Call("st.code", value, <<"language", metadata.kernelspec.language>>)

\* C12: a stream record is classified as one stdout entry whose payload is
\* its text fragments joined in order; an untagged code cell with a source
\* and the one stream record of text "a", "b" is displayed as the source and
\* then one code block of "ab", and nothing else.
C12_StreamIsOneStdout ==
    /\ Classified =>
          \A i \in 1..Len(TheCell.outputs) :
              TheCell.outputs[i].output_type = "stream" =>
                  ItemsOf(i) =
                      <<Dict("stdout", Join(TheCell.outputs[i].text)).items>>
    /\ (/\ Displayed("code")
        /\ TheCell.outputs =
              <<[output_type |-> "stream", text |-> << <<"a">>, <<"b">> >>]>>)
          => /\ calls = <<SourceCall(TheCell), OutputCode(<<"a", "b">>)>>
             /\ raised = "None"

\* C12 witness: the cell with the one stream record of text "a", "b" has been
\* displayed, after its outputs were classified as one entry
C12_Witness ==
    /\ Displayed("code")
    /\ Source(TheCell) # <<>>
    /\ Tags(TheCell) = {}
    /\ TheCell.outputs =
          <<[output_type |-> "stream", text |-> << <<"a">>, <<"b">> >>]>>
    /\ Len(calls) = 2
    /\ calls[2].arg = <<"a", "b">>


\* the items of the entries a record has when it is the only one of its cell
AloneItems(output) ==
    LET alone == _outputs(CodeCell(EmptyMap, <<>>, <<output>>)).list
    IN [k \in 1..Len(alone) |-> alone[k].items]

\* C13: the classified list keeps the order of the raw records, and a record
\* that no parsing function matches has no entry and raises nothing: the
\* entries of every record are those it has alone.
C13_OrderKeptUnmatchedDropped ==
    /\ Classified =>
          /\ \A k, l \in 1..Len(returned.list) :
                k < l => returned.list[k].rec <= returned.list[l].rec
          /\ \A i \in 1..Len(TheCell.outputs) :
                /\ Matching(TheCell.outputs[i]) = {} => EntriesOf(i) = <<>>
                /\ ItemsOf(i) = AloneItems(TheCell.outputs[i])
    /\ (/\ op.name = "_outputs"
        /\ \A i \in 1..Len(TheCell.outputs) :
              TheCell.outputs[i] \notin MalformedRecords)
          => raised = "None"

\* C13 witness: the outputs of a cell whose first record is a display_data
\* with no recognized MIME key and whose second is a stream record have been
\* classified: one entry, of the second record
C13_Witness ==
    /\ Classified
    /\ Len(TheCell.outputs) = 2
    /\ TheCell.outputs[1].output_type = "display_data"
    /\ HasKeys(TheCell.outputs[1], {"application/json"})
    /\ Matching(TheCell.outputs[1]) = {}
    /\ TheCell.outputs[2].output_type = "stream"
    /\ Len(returned.list) = 1
    /\ returned.list[1].rec = 2


---------------------------------------------------------------------------
(* Properties: unrecognized tags (SpecTags)                                *)

\* the tags the display of a cell of a kind tests for
RecognizedTags(cell) ==
    IF cell.cell_type = "code" THEN CodeTags ELSE {"skip", "ci"}

\* the same cell with another tag set
WithTags(cell, tags) == [cell EXCEPT !.metadata = [tags |-> tags]]

\* C14: tags that are not recognized for the kind of a cell are ignored: the
\* cell is displayed, calls and exception alike, as the same cell without
\* them is, so a cell with unrecognized tags only is displayed as the cell
\* with no tag.
C14_UnknownTagsIgnored ==
    op.name = "cell.display" =>
        LET recognized == Tags(TheCell) \cap RecognizedTags(TheCell)
            without == cell_display(WithTags(TheCell, recognized), metadata,
                                    Start(fault))
        IN /\ calls = without.calls
           /\ raised = without.raised
           /\ (recognized = {} /\ fault = NoFault) => raised = "None"

\* C14 witness: a code cell whose only tag is an unrecognized one, with a
\* source and outputs, has been displayed: the source, then the outputs
C14_Witness ==
    /\ Displayed("code")
    /\ Tags(TheCell) = {"other"}
    /\ fault = NoFault
    /\ TheCell.outputs # <<>>
    /\ Len(calls) >= 2
    /\ calls[1] = SourceCall(TheCell)


---------------------------------------------------------------------------
(* Properties: the display of a book (SpecBook)                            *)

RECURSIVE CellByCell(_)
\* the calls of each cell displayed on its own, one cell after the other
CellByCell(cells) ==
    IF cells = <<>> THEN <<>>
    ELSE cell_display(Head(cells), metadata, Start(NoFault)).calls
         \o CellByCell(Tail(cells))

\* C15: display() displays every cell once, in the order of the book: its
\* calls are those of the first cell, then those of the second, and so on,
\* all made when it returns; when a call fails, the calls made are those up
\* to the failure.
C15_CellsInOrder ==
    op.name = "display" =>
        LET all == CellByCell(cell_dict) IN
        /\ fault = NoFault => (calls = all /\ raised = "None")
        /\ Len(calls) <= Len(all)
        /\ calls = SubSeq(all, 1, Len(calls))

\* C15 witness: a book of three different cells, the first and the last of
\* which make calls, has been displayed
C15_Witness ==
    /\ op.name = "display"
    /\ fault = NoFault
    /\ Len(cell_dict) = 3
    /\ cell_dict[1] # cell_dict[2]
    /\ cell_dict[2] # cell_dict[3]
    /\ cell_dict[1] # cell_dict[3]
    /\ cell_dict[1].cell_type = "code"
    /\ calls[1] = SourceCall(cell_dict[1])
    /\ calls[Len(calls)].fn = "st.markdown"


---------------------------------------------------------------------------
(* Properties: failures of the renderer (SpecTags)                         *)

\* C16: a failure of a call against the renderer, of a code cell's output
\* renderers and of a text cell's image renderer alike, goes on to the
\* caller of display() as it is.
C16_RendererFailurePropagates ==
    (op.name = "cell.display" /\ fault # NoFault) => raised = fault.exc


---------------------------------------------------------------------------
(* Properties: collapsible sections of a code cell (SpecTags)              *)

\* the places in calls where a section is opened, and where one is closed
Opened == {k \in 1..Len(calls) : calls[k].fn = "st.expander"}
Closed == {k \in 1..Len(calls) : calls[k].fn = "expander.__exit__"}

\* C17: under ci/collapsed_input the section is opened, the source is shown
\* inside it, the section is closed and then the outputs are shown outside;
\* under co/collapsed_output the source is shown before the section and the
\* outputs inside it.  One section is opened, also when its body is empty.
C17_SectionHoldsOnePart ==
    (Displayed("code") /\ fault = NoFault) =>
        LET rule == FirstRule(Tags(TheCell)) IN
        /\ rule = "collapsed input" =>
              /\ Cardinality(Opened) = 1 /\ Cardinality(Closed) = 1
              /\ calls[1] = Open("See hidden source code...")
              /\ LET c == Min(Closed) IN
                 /\ SubSeq(calls, 2, c - 1) = SourceShown(TheCell)
                 /\ SubSeq(calls, c + 1, Len(calls)) = OutputsShown(TheCell)
        /\ rule = "collapsed output" =>
              /\ Cardinality(Opened) = 1 /\ Cardinality(Closed) = 1
              /\ calls[Len(calls)] = Close
              /\ LET o == Min(Opened) IN
                 /\ SubSeq(calls, 1, o - 1) = SourceShown(TheCell)
                 /\ calls[o] = Open("See hidden output...")
                 /\ SubSeq(calls, o + 1, Len(calls) - 1) = OutputsShown(TheCell)
        /\ rule \notin {"collapsed input", "collapsed output"} =>
              Opened = {} /\ Closed = {}

\* C17 witness: a code cell tagged ci, without a source and with outputs,
\* has been displayed: an empty section, then the outputs
C17_Witness ==
    /\ Displayed("code")
    /\ fault = NoFault
    /\ Tags(TheCell) = {"ci"}
    /\ Source(TheCell) = <<>>
    /\ Len(calls) > 2
    /\ calls[1] = Open("See hidden source code...")
    /\ calls[2] = Close


\* display_keys has an entry for a key: the lookup does not fail
HasRenderer(key) ==
    display_keys(key, <<>>, metadata.kernelspec.language,
                 Start(NoFault)).raised = "None"

\* C18: every entry the classification of well-formed records gives has a
\* key of the dispatch table of _display_outputs, so the display of the
\* outputs does not fail for want of a renderer: every entry is rendered.
C18_EveryKindHasRenderer ==
    /\ Classified =>
          \A k \in 1..Len(returned.list) :
              \A j \in 1..Len(returned.list[k].items) :
                  HasRenderer(returned.list[k].items[j].key)
    /\ (/\ Displayed("code")
        /\ \A i \in 1..Len(TheCell.outputs) :
              TheCell.outputs[i] \notin MalformedRecords)
          => /\ raised = "None"
             /\ TheCell.outputs # <<>> =>
                   Len(calls) = 1 + Len(_outputs(TheCell).list)

\* C18 witness: a cell whose records are a plain-text result and an error has
\* been displayed: the source, a code block and an error box
C18_Witness ==
    /\ Displayed("code")
    /\ Len(TheCell.outputs) = 2
    /\ TheCell.outputs[1].output_type = "execute_result"
    /\ DOMAIN TheCell.outputs[1].data = {"text/plain"}
    /\ TheCell.outputs[2].output_type = "error"
    /\ Len(calls) = 3
    /\ calls[2] = OutputCode(<<"p">>)
    /\ calls[3].fn = "st.error"


---------------------------------------------------------------------------
(* Properties: display after split (SpecBook)                              *)

\* C19: for every index from 0 to the number of cells, the display of the
\* first book split() returns followed by the display of the second makes
\* the calls the display of the book itself makes.
C19_DisplayOverSplit ==
    (op.name = "halves.display" /\ op.arg \in 0..Len(cell_dict)) =>
        LET whole == book_display(cell_dict, metadata, Start(NoFault)) IN
        /\ calls = whole.calls
        /\ raised = whole.raised

\* C19 witness: the halves of a julia book of three cells split at 1, whose
\* second cell is a code cell with a stream output, have been displayed
C19_Witness ==
    /\ op.name = "halves.display"
    /\ op.arg = 1
    /\ Len(cell_dict) = 3
    /\ metadata.kernelspec.language = "julia"
    /\ cell_dict[2].cell_type = "code"
    /\ Tags(cell_dict[2]) = {}
    /\ cell_dict[1] # cell_dict[2]
    /\ OutputCode(<<"a", "b">>) \in {calls[k] : k \in 1..Len(calls)}


---------------------------------------------------------------------------
(* Code cells with a malformed output record                               *)

\* records without a field their output_type requires
Unreadable ==
    MalformedRecords \cup {[output_type |-> "stream"], [output_type |-> "error"]}

MalformedOutputs ==
    LET stream == [output_type |-> "stream", text |-> << <<"a">>, <<"b">> >>]
        html == [output_type |-> "display_data",
                 data |-> [k \in {"text/html"} |-> Payload(k)]]
        error == [output_type |-> "error", ename |-> <<"E">>]
    IN {<<[output_type |-> "display_data"]>>,
        <<stream, [output_type |-> "display_data"]>>,
        <<[output_type |-> "display_data"], stream>>,
        <<html, error, [output_type |-> "error"]>>,
        <<error, [output_type |-> "stream"], html>>}

InitMalformed ==
    /\ metadata \in BookMetadata
    /\ \E m \in CellMetadata, source \in CodeSources,
          outputs \in MalformedOutputs :
          cell_dict = <<CodeCell(m, source, outputs)>>
    /\ Fresh

NextMalformed == GetOutputs \/ DisplayCellSound

SpecMalformed == InitMalformed /\ [][NextMalformed]_vars

---------------------------------------------------------------------------
(* Properties: malformed output records (SpecMalformed)                    *)

HasUnreadable(cell) ==
    \E i \in 1..Len(cell.outputs) : cell.outputs[i] \in Unreadable

\* no call of calls renders an output
NoOutputRendered ==
    \A k \in 1..Len(calls) :
        \/ calls[k] = SourceCall(TheCell)
        \/ calls[k].fn \in {"st.expander", "expander.__exit__"}

\* C20 as stated: whatever the tags of a code cell with a malformed output
\* record, its display lets the lookup failure out and renders no output.
C20_MalformedAlwaysPropagates ==
    (Displayed("code") /\ HasUnreadable(TheCell)) =>
        raised = "KeyError" /\ NoOutputRendered

\* C20: the outputs of a code cell are all classified before one of them is
\* rendered: when the rule of the cell's tags shows outputs and a record is
\* malformed, the display lets the lookup failure out and renders no output,
\* after the source where the rule shows the source first; when the rule
\* shows no outputs (skip, ho/hide_output) the records are not read and
\* nothing is raised.
C20_MalformedStopsOutputs ==
    /\ (op.name = "_outputs" /\ HasUnreadable(TheCell)) =>
          raised = "KeyError" /\ returned = PyNone
    /\ (Displayed("code") /\ HasUnreadable(TheCell)) =>
          LET rule == FirstRule(Tags(TheCell))
              src == SourceShown(TheCell)
          IN /\ NoOutputRendered
             /\ raised = IF rule \in {"skip", "source only"} THEN "None"
                         ELSE "KeyError"
             /\ calls =
                  CASE rule = "skip" -> <<>>
                    [] rule = "outputs only" -> <<>>
                    [] rule = "source only" -> src
                    [] rule = "collapsed input" ->
                          <<Open("See hidden source code...")>> \o src
                          \o <<Close>>
                    [] rule = "collapsed output" ->
                          src \o <<Open("See hidden output..."), Close>>
                    [] rule = "none" -> src

\* C20 witness: an untagged code cell with a source, a stream record and
\* then a malformed record has been displayed: the source, and KeyError
C20_Witness ==
    /\ Displayed("code")
    /\ Tags(TheCell) = {}
    /\ Len(TheCell.outputs) = 2
    /\ TheCell.outputs[1].output_type = "stream"
    /\ TheCell.outputs[2] \in Unreadable
    /\ calls = <<SourceCall(TheCell)>>
    /\ raised = "KeyError"


---------------------------------------------------------------------------
(* Properties: the altair_fig kind (SpecOutputs)                           *)

\* a tag set of every rule of Code.display, and an unrecognized tag
RuleTags == {{}, {"skip"}, {"hi"}, {"ho"}, {"ci"}, {"co"}, {"other"}}

\* the calls of the display of a cell under a tag set
CallsUnder(cell, tags) ==
    cell_display(WithTags(cell, tags), metadata, Start(NoFault)).calls

=============================================================================
